---- MODULE Spec2Model ----
(***************************************************************************)
(* Model of portfolio-tracker (src/src/main.rs): the valuation builder     *)
(* build_porfolio, the per-ticker fan-out generate_portfolio, and the      *)
(* price store with its handlers update_prices and delete_prices.          *)
(*                                                                         *)
(* Dates are day numbers (NaiveDate; succ() is +1).  The stores keep dates *)
(* as "%Y-%m-%d" strings; for zero-padded four-digit-year strings the      *)
(* string order used by ORDER BY coincides with the order of the dates, so *)
(* the model compares day numbers.  Prices are integers (BigDecimal is     *)
(* exact, so is integer multiplication).                                   *)
(***************************************************************************)
EXTENDS Integers, Sequences, FiniteSets

(* ------------------------------- bounds -------------------------------- *)

\* dates of trades and prices range over 1..MaxDate
MaxDate == 3
\* longest trade list handed to build_porfolio
MaxTrades == 2
\* longest price list handed to build_porfolio
MaxPrices == 3

\* update_prices requests the server handles at once
NumTasks == 2
\* update_prices requests one task handles, one after the other
MaxRuns == 2
\* rows of the trades table and of the prices table a portfolio is
\* generated from
MaxTradeRows == 2
MaxPriceRows == 2
\* daily closes in a "compact" answer of the provider (the latest ones)
CompactPoints == 2

Dates == 1..MaxDate
Tasks == 1..NumTasks
\* amounts of trades (CreateTrade.amount is a u32) and close prices
Amounts == {1, 2}
Prices == {1, 2}

(* --------------------------- program constants ------------------------- *)

TICKERS == <<"IWDA.AMS", "NQSE.DEX">>

TickerSet == {TICKERS[i] : i \in 1..Len(TICKERS)}

\* chrono::naive::MIN_DATE, before every date a store or the provider holds
MIN_DATE == 0 - 100000000

\* Duration::days(-100): the age in days up to which "compact" is requested
RecentDays == 100

\* values of Utc::today(): the day of the newest close, and one more than
\* RecentDays later
Todays == {MaxDate, MaxDate + RecentDays + 1}

VARIABLES
    \* build_porfolio: position in the function, arguments and locals
    b_pc, b_prices, b_trades, portfolio, portfolio_boot_date,
    last_price_date, portfolio_amount_in_units,
    \* the prices table, in insertion order
    prices_table,
    \* the environment of update_prices: the provider's daily closes per
    \* ticker and whether ALPHA_VANTAGE_API_KEY is set
    provider, api_key_set,
    \* update_prices, per task: position in the handler, index of the ticker
    \* of the for loop, last_ticker_date, api_output_size, and the entries of
    \* prices_to_insert not yet inserted
    u_pc, u_idx, u_last, u_size, u_todo,
    \* history, per task: requests started, rows inserted by the current
    \* request, whether delete_prices ran since the request started, and
    \* whether the request before the current one returned with no
    \* delete_prices since it started
    u_runs, u_written, u_wiped, u_prev_clean,
    \* the trades table, in insertion order
    trades_table,
    \* generate_portfolio: position in the handler, the vectors trades and
    \* prices, index of the ticker of the for loop, response_map
    g_pc, g_trades, g_prices, g_idx, response_map,
    \* history: requests started, and of the request before the current one
    \* the vectors it read and, per ticker, the series it answered (none when
    \* it gave no answer)
    g_runs, g_prev

b_vars == <<b_pc, b_prices, b_trades, portfolio, portfolio_boot_date,
            last_price_date, portfolio_amount_in_units>>

(* ------------------------------ build_porfolio ------------------------- *)

\* NaiveDate::succ
succ(d) == d + 1

\* trades.iter().filter(|trade| trade.date == portfolio_boot_date)
filter_trades(trades, d) == SelectSeq(trades, LAMBDA trade : trade.date = d)

\* faulty variant: every trade of the day is added, not only the first
RECURSIVE sum_amounts(_)
sum_amounts(trades) ==
    IF trades = <<>> THEN 0 ELSE Head(trades).amount + sum_amounts(Tail(trades))

trade_amount_of_the_day_all(trades, d) == sum_amounts(filter_trades(trades, d))

\* .next() of the filtered trades, matched to its amount or 0
trade_amount_of_the_day(trades, d) ==
    IF filter_trades(trades, d) # <<>>
    THEN Head(filter_trades(trades, d)).amount
    ELSE 0

\* faulty variant: the price filter compares with >= instead of ==
filter_prices_ge(prices, d) == SelectSeq(prices, LAMBDA price : price.date >= d)

\* prices.iter().filter(|price| price.date == portfolio_boot_date)
filter_prices(prices, d) == SelectSeq(prices, LAMBDA price : price.date = d)

\* Portfolio { date, amount_in_euros: price.price * BigDecimal::from(units) }
Portfolio(d, price, units) == [date |-> d, amount_in_euros |-> price.price * units]

\* lines 281-284: the locals are set; trades[0] and prices[prices.len() - 1]
\* panic on an empty vector (index out of bounds, or the subtraction overflow)
build_enter ==
    /\ b_pc = "call"
    /\ IF b_trades = <<>> \/ b_prices = <<>>
       THEN /\ b_pc' = "panicked"
            /\ UNCHANGED <<portfolio, portfolio_boot_date, last_price_date,
                           portfolio_amount_in_units>>
       ELSE /\ b_pc' = "loop"
            /\ portfolio' = <<>>
            /\ portfolio_boot_date' = b_trades[1].date
            /\ last_price_date' = b_prices[Len(b_prices)].date
            /\ portfolio_amount_in_units' = 0
    /\ UNCHANGED <<b_prices, b_trades>>

\* faulty variant: a day without a price is skipped before its trade is added
build_loop_skip_unpriced ==
    /\ b_pc = "loop"
    /\ portfolio_boot_date <= last_price_date
    /\ IF filter_prices(b_prices, portfolio_boot_date) # <<>>
       THEN /\ portfolio_amount_in_units' =
                  portfolio_amount_in_units
                      + trade_amount_of_the_day(b_trades, portfolio_boot_date)
            /\ portfolio' =
                  Append(portfolio,
                         Portfolio(portfolio_boot_date,
                                   Head(filter_prices(b_prices, portfolio_boot_date)),
                                   portfolio_amount_in_units'))
       ELSE UNCHANGED <<portfolio_amount_in_units, portfolio>>
    /\ portfolio_boot_date' = succ(portfolio_boot_date)
    /\ UNCHANGED <<b_pc, b_prices, b_trades, last_price_date>>

\* lines 286-307: one iteration of the calendar walk
build_loop ==
    /\ b_pc = "loop"
    /\ portfolio_boot_date <= last_price_date
    /\ portfolio_amount_in_units' =
          portfolio_amount_in_units
              + trade_amount_of_the_day(b_trades, portfolio_boot_date)
    /\ portfolio' =
          IF filter_prices(b_prices, portfolio_boot_date) # <<>>
          THEN Append(portfolio,
                      Portfolio(portfolio_boot_date,
                                Head(filter_prices(b_prices, portfolio_boot_date)),
                                portfolio_amount_in_units'))
          ELSE portfolio
    /\ portfolio_boot_date' = succ(portfolio_boot_date)
    /\ UNCHANGED <<b_pc, b_prices, b_trades, last_price_date>>

\* lines 286, 308: the loop condition fails and the vector is returned
build_return ==
    /\ b_pc = "loop"
    /\ ~(portfolio_boot_date <= last_price_date)
    /\ b_pc' = "returned"
    /\ UNCHANGED <<b_prices, b_trades, portfolio, portfolio_boot_date,
                   last_price_date, portfolio_amount_in_units>>

(* ------------------------------ price store --------------------------- *)

p_vars == <<prices_table>>
u_vars == <<provider, api_key_set, u_pc, u_idx, u_last, u_size, u_todo,
            u_runs, u_written, u_wiped, u_prev_clean>>

MaxOf(S) == CHOOSE x \in S : \A y \in S : y <= x

\* the prices table takes every row: it has no uniqueness constraint on
\* (ticker, date); the caller deduplicates by its date filter
prices_schema_accepts(table, row) == TRUE

\* SELECT date from prices where ticker = ?1 ORDER BY date desc limit 1,
\* matched to the parsed date or MIN_DATE
select_last_ticker_date(table, ticker) ==
    LET ds == {table[i].date : i \in {j \in 1..Len(table) : table[j].ticker = ticker}}
    IN  IF ds = {} THEN MIN_DATE ELSE MaxOf(ds)

\* line 182: "compact" when the last stored date is less than 100 days old
output_size(last, today) ==
    IF last > today - RecentDays THEN "compact" ELSE "full"

\* the provider's answer: every close of the ticker for "full", the latest
\* CompactPoints closes for "compact"
time_series(ticker, size) ==
    IF size = "full" THEN provider[ticker]
    ELSE {p \in provider[ticker] :
              Cardinality({q \in provider[ticker] : q.date > p.date}) < CompactPoints}

\* faulty variant: the date filter keeps the last stored date (>= instead of >)
prices_to_insert_ge(series, last) == {p \in series : p.date >= last}

\* lines 197-200: the entries dated after last_ticker_date
prices_to_insert(series, last) == {p \in series : p.date > last}

\* faulty variant: only the rows of the first ticker are deleted
delete_from_prices_first_ticker(table) ==
    SelectSeq(table, LAMBDA row : row.ticker # TICKERS[1])

\* DELETE FROM prices
delete_from_prices(table) == <<>>

\* INSERT INTO prices ( ticker, date, price )
insert_into_prices(table, ticker, p) ==
    Append(table, [ticker |-> ticker, date |-> p.date, price |-> p.price])

Finished(t) == u_pc[t] \in {"idle", "returned_ok", "returned_500", "panicked"}

\* a GET /prices/update request reaches the handler (a task takes at most
\* `limit` requests)
u_start(t, limit) ==
    /\ Finished(t)
    /\ u_runs[t] < limit
    /\ u_runs' = [u_runs EXCEPT ![t] = @ + 1]
    /\ u_pc' = [u_pc EXCEPT ![t] = "select"]
    /\ u_idx' = [u_idx EXCEPT ![t] = 1]
    /\ u_todo' = [u_todo EXCEPT ![t] = {}]
    /\ u_prev_clean' = [u_prev_clean EXCEPT
                            ![t] = u_pc[t] \in {"returned_ok", "returned_500"}
                                     /\ ~u_wiped[t]]
    /\ u_written' = [u_written EXCEPT ![t] = <<>>]
    /\ u_wiped' = [u_wiped EXCEPT ![t] = FALSE]
    /\ UNCHANGED <<prices_table, provider, api_key_set, u_last, u_size>>

\* lines 163-189: the last stored date of the ticker is read, the output size
\* chosen, and the handler returns 500 when the key is not set
u_select(t) ==
    /\ u_pc[t] = "select"
    /\ \E today \in Todays :
          LET last == select_last_ticker_date(prices_table, TICKERS[u_idx[t]])
          IN  /\ u_last' = [u_last EXCEPT ![t] = last]
              /\ u_size' = [u_size EXCEPT ![t] = output_size(last, today)]
    /\ u_pc' = [u_pc EXCEPT ![t] = IF api_key_set THEN "fetch" ELSE "returned_500"]
    /\ UNCHANGED <<prices_table, provider, api_key_set, u_idx, u_todo,
                   u_runs, u_written, u_wiped, u_prev_clean>>

\* the end of one iteration of the for loop: the next ticker, or line 216
after_ticker(t, todo) ==
    IF todo # {} THEN u_pc' = [u_pc EXCEPT ![t] = "insert"] /\ UNCHANGED u_idx
    ELSE IF u_idx[t] < Len(TICKERS)
         THEN /\ u_pc' = [u_pc EXCEPT ![t] = "select"]
              /\ u_idx' = [u_idx EXCEPT ![t] = @ + 1]
         ELSE u_pc' = [u_pc EXCEPT ![t] = "returned_ok"] /\ UNCHANGED u_idx

\* lines 190-200: the provider answers and the answer is filtered (the filter
\* is a lazy iterator over the immutable answer, with last_ticker_date fixed:
\* the entries it yields are those computed here)
u_fetch(t) ==
    /\ u_pc[t] = "fetch"
    /\ LET todo == prices_to_insert(time_series(TICKERS[u_idx[t]], u_size[t]),
                                    u_last[t])
       IN  /\ u_todo' = [u_todo EXCEPT ![t] = todo]
           /\ after_ticker(t, todo)
    /\ UNCHANGED <<prices_table, provider, api_key_set, u_last, u_size,
                   u_runs, u_written, u_wiped, u_prev_clean>>

\* faulty variant: a failed pass takes back the rows it inserted
u_fetch_fails_rollback(t) ==
    /\ u_pc[t] = "fetch"
    /\ u_pc' = [u_pc EXCEPT ![t] = "panicked"]
    /\ prices_table' = SelectSeq(prices_table,
                                 LAMBDA row : \A i \in 1..Len(u_written[t]) :
                                                 u_written[t][i] # row)
    /\ UNCHANGED <<provider, api_key_set, u_idx, u_last, u_size, u_todo,
                   u_runs, u_written, u_wiped, u_prev_clean>>

\* lines 191-196: the request or the decoding of the answer fails and the
\* unwrap panics
u_fetch_fails(t) ==
    /\ u_pc[t] = "fetch"
    /\ u_pc' = [u_pc EXCEPT ![t] = "panicked"]
    /\ UNCHANGED <<prices_table, provider, api_key_set, u_idx, u_last, u_size,
                   u_todo, u_runs, u_written, u_wiped, u_prev_clean>>

\* lines 201-214: one INSERT; the HashMap is iterated in any order
u_insert(t) ==
    /\ u_pc[t] = "insert"
    /\ \E p \in u_todo[t] :
          LET ticker == TICKERS[u_idx[t]]
              row == [ticker |-> ticker, date |-> p.date, price |-> p.price]
          IN  IF prices_schema_accepts(prices_table, row)
              THEN /\ prices_table' = insert_into_prices(prices_table, ticker, p)
                   /\ u_written' = [u_written EXCEPT ![t] = Append(@, row)]
                   /\ u_todo' = [u_todo EXCEPT ![t] = @ \ {p}]
                   /\ after_ticker(t, u_todo[t] \ {p})
              ELSE /\ u_pc' = [u_pc EXCEPT ![t] = "panicked"]
                   /\ UNCHANGED <<prices_table, u_written, u_todo, u_idx>>
    /\ UNCHANGED <<provider, api_key_set, u_last, u_size, u_runs, u_wiped,
                   u_prev_clean>>

\* lines 246-258
delete_prices ==
    /\ prices_table' = delete_from_prices(prices_table)
    /\ u_wiped' = [t \in Tasks |-> TRUE]
    /\ UNCHANGED <<provider, api_key_set, u_pc, u_idx, u_last, u_size, u_todo,
                   u_runs, u_written, u_prev_clean>>

\* the closes the provider holds for one ticker: at most one per date (the
\* keys of a HashMap); update_prices never reads a close, so each date has
\* one representative close
ProviderClose(d) == 1 + (d % 2)

ProviderSeries ==
    {{[date |-> d, price |-> ProviderClose(d)] : d \in D} : D \in SUBSET Dates}

SyncInit ==
    /\ prices_table = <<>>
    /\ provider \in [TickerSet -> ProviderSeries]
    /\ api_key_set \in BOOLEAN
    /\ u_pc = [t \in Tasks |-> "idle"]
    /\ u_idx = [t \in Tasks |-> 1]
    /\ u_last = [t \in Tasks |-> MIN_DATE]
    /\ u_size = [t \in Tasks |-> "full"]
    /\ u_todo = [t \in Tasks |-> {}]
    /\ u_runs = [t \in Tasks |-> 0]
    /\ u_written = [t \in Tasks |-> <<>>]
    /\ u_wiped = [t \in Tasks |-> FALSE]
    /\ u_prev_clean = [t \in Tasks |-> FALSE]

\* the stores and tasks at rest, for the specifications of build_porfolio
SyncIdle ==
    /\ prices_table = <<>>
    /\ provider = [t \in TickerSet |-> {}]
    /\ api_key_set = TRUE
    /\ u_pc = [t \in Tasks |-> "idle"]
    /\ u_idx = [t \in Tasks |-> 1]
    /\ u_last = [t \in Tasks |-> MIN_DATE]
    /\ u_size = [t \in Tasks |-> "full"]
    /\ u_todo = [t \in Tasks |-> {}]
    /\ u_runs = [t \in Tasks |-> 0]
    /\ u_written = [t \in Tasks |-> <<>>]
    /\ u_wiped = [t \in Tasks |-> FALSE]
    /\ u_prev_clean = [t \in Tasks |-> FALSE]

BuildIdle ==
    /\ b_pc = "idle"
    /\ b_trades = <<>>
    /\ b_prices = <<>>
    /\ portfolio = <<>>
    /\ portfolio_boot_date = 0
    /\ last_price_date = 0
    /\ portfolio_amount_in_units = 0

(* ------------------- inputs of build_porfolio (one ticker) ------------- *)

SeqsUpTo(S, n) == UNION {[1..k -> S] : k \in 0..n}

IsDateAscending(s) == \A i \in 1..Len(s) : \A j \in i..Len(s) : s[i].date <= s[j].date

TradeRows(t) == [date : Dates, amount : Amounts, ticker : {t}]
PriceRows(t) == [date : Dates, price : Prices, ticker : {t}]

(* --------------------------- trades and fan-out ------------------------ *)

t_vars == <<trades_table>>
g_vars == <<g_pc, g_trades, g_prices, g_idx, response_map, g_runs, g_prev>>

vars == <<b_vars, p_vars, u_vars, t_vars, g_vars>>

\* the id SQLite gives a new row: one more than the largest rowid
next_rowid(table) ==
    IF table = <<>> THEN 1 ELSE 1 + MaxOf({table[i].id : i \in 1..Len(table)})

\* lines 70-93: INSERT INTO trades
create_trade(payload) ==
    /\ Len(trades_table) < MaxTradeRows
    /\ trades_table' =
          Append(trades_table,
                 [id |-> next_rowid(trades_table), ticker |-> payload.ticker,
                  date |-> payload.date, amount |-> payload.amount])
    /\ UNCHANGED <<b_vars, p_vars, u_vars, g_vars>>

\* ORDER BY date asc: rows of one date stay in insertion order
order_by_date(table) ==
    LET rank(i) ==
            Cardinality({j \in 1..Len(table) :
                            \/ table[j].date < table[i].date
                            \/ table[j].date = table[i].date /\ j <= i})
    IN  [k \in 1..Len(table) |-> table[CHOOSE i \in 1..Len(table) : rank(i) = k]]

\* lines 325-331: the rows as Trade values
as_trades(rows) ==
    [k \in 1..Len(rows) |->
        [amount |-> rows[k].amount, date |-> rows[k].date, ticker |-> rows[k].ticker]]

\* lines 344-350: the rows as DailyPrice values
as_prices(rows) ==
    [k \in 1..Len(rows) |->
        [price |-> rows[k].price, date |-> rows[k].date, ticker |-> rows[k].ticker]]

\* faulty variant: the vector is handed over whole, the ticker filter is left out
filter_ticker_none(rows, ticker) == rows

\* .into_iter().filter(|row| row.ticker == ticker.to_string()).collect()
filter_ticker(rows, ticker) == SelectSeq(rows, LAMBDA row : row.ticker = ticker)

\* HashMap::insert
map_insert(map, key, value) ==
    [x \in DOMAIN map \cup {key} |-> IF x = key THEN value ELSE map[x]]

\* the panic of build_porfolio unwinds generate_portfolio: no answer is sent
GenPanicked == g_pc = "building" /\ b_pc = "panicked"
GenFinished == g_pc \in {"idle", "responded"} \/ GenPanicked

\* the series the finished request answered for a ticker, none without answer
AnsweredSeries(ticker) ==
    IF g_pc = "responded" THEN {response_map[ticker]} ELSE {}

\* a GET /portfolio request reaches the handler
g_start ==
    /\ GenFinished
    /\ g_runs < MaxRuns
    /\ g_runs' = g_runs + 1
    /\ g_prev' = IF g_pc = "idle" THEN g_prev
                 ELSE [known |-> TRUE, trades |-> g_trades, prices |-> g_prices,
                       series |-> [t \in TickerSet |-> AnsweredSeries(t)]]
    /\ g_pc' = "select_trades"
    /\ g_trades' = <<>>
    /\ g_prices' = <<>>
    /\ g_idx' = 1
    /\ response_map' = <<>>
    /\ b_pc' = "idle"
    /\ UNCHANGED <<b_prices, b_trades, portfolio, portfolio_boot_date,
                   last_price_date, portfolio_amount_in_units>>
    /\ UNCHANGED <<p_vars, u_vars, t_vars>>

\* lines 314-331: SELECT date, amount, ticker FROM trades ORDER BY date asc
g_select_trades ==
    /\ g_pc = "select_trades"
    /\ g_trades' = as_trades(order_by_date(trades_table))
    /\ g_pc' = "select_prices"
    /\ UNCHANGED <<g_prices, g_idx, response_map, g_runs, g_prev>>
    /\ UNCHANGED <<b_vars, p_vars, u_vars, t_vars>>

\* the call of build_porfolio for the ticker of index idx (lines 356-367)
call_build(idx, prices, trades) ==
    /\ g_idx' = idx
    /\ g_pc' = "building"
    /\ b_pc' = "call"
    /\ b_prices' = filter_ticker(prices, TICKERS[idx])
    /\ b_trades' = filter_ticker(trades, TICKERS[idx])
    /\ UNCHANGED <<portfolio, portfolio_boot_date, last_price_date,
                   portfolio_amount_in_units>>

\* lines 333-356: SELECT date, price, ticker FROM prices ORDER BY date asc,
\* then the for loop is entered
g_select_prices ==
    /\ g_pc = "select_prices"
    /\ g_prices' = as_prices(order_by_date(prices_table))
    /\ response_map' = <<>>
    /\ call_build(1, g_prices', g_trades)
    /\ UNCHANGED <<g_trades, g_runs, g_prev>>
    /\ UNCHANGED <<p_vars, u_vars, t_vars>>

\* lines 354-372: the returned series is inserted; the next ticker is built,
\* or the map is answered
g_insert ==
    /\ g_pc = "building"
    /\ b_pc = "returned"
    /\ response_map' = map_insert(response_map, TICKERS[g_idx], portfolio)
    /\ IF g_idx < Len(TICKERS)
       THEN call_build(g_idx + 1, g_prices, g_trades)
       ELSE /\ g_pc' = "responded"
            /\ b_pc' = "idle"
            /\ UNCHANGED <<g_idx, b_prices, b_trades, portfolio,
                           portfolio_boot_date, last_price_date,
                           portfolio_amount_in_units>>
    /\ UNCHANGED <<g_trades, g_prices, g_runs, g_prev>>
    /\ UNCHANGED <<p_vars, u_vars, t_vars>>

GenIdle ==
    /\ g_pc = "idle"
    /\ g_trades = <<>>
    /\ g_prices = <<>>
    /\ g_idx = 1
    /\ response_map = <<>>
    /\ g_runs = 0
    /\ g_prev = [known |-> FALSE, trades |-> <<>>, prices |-> <<>>,
                 series |-> [t \in TickerSet |-> {}]]

(* ----------------------------- specifications -------------------------- *)

idle_but_sync == UNCHANGED <<b_vars, t_vars, g_vars>>

\* update_prices and delete_prices on an empty store, one request after the
\* other
SeqInit == SyncInit /\ BuildIdle /\ GenIdle /\ trades_table = <<>>

SeqNext ==
    \/ u_start(1, MaxRuns) /\ idle_but_sync
    \/ u_select(1) /\ idle_but_sync
    \/ u_fetch(1) /\ idle_but_sync
    \/ u_fetch_fails(1) /\ idle_but_sync
    \/ u_insert(1) /\ idle_but_sync
    \/ delete_prices /\ idle_but_sync

SpecSeq == SeqInit /\ [][SeqNext]_vars

\* one update_prices request per task: the requests interleave at their awaits
ConcInit == SyncInit /\ BuildIdle /\ GenIdle /\ trades_table = <<>>

ConcNext ==
    \/ \E t \in Tasks : u_start(t, 1) /\ idle_but_sync
    \/ \E t \in Tasks : u_select(t) /\ idle_but_sync
    \/ \E t \in Tasks : u_fetch(t) /\ idle_but_sync
    \/ \E t \in Tasks : u_fetch_fails(t) /\ idle_but_sync
    \/ \E t \in Tasks : u_insert(t) /\ idle_but_sync

SpecConc == ConcInit /\ [][ConcNext]_vars

\* build_porfolio on the date-ascending lists of one ticker
BuildInit ==
    /\ b_pc = "call"
    /\ b_trades \in {s \in SeqsUpTo(TradeRows(TICKERS[1]), MaxTrades) : IsDateAscending(s)}
    /\ b_prices \in {s \in SeqsUpTo(PriceRows(TICKERS[1]), MaxPrices) : IsDateAscending(s)}
    /\ portfolio = <<>>
    /\ portfolio_boot_date = 0
    /\ last_price_date = 0
    /\ portfolio_amount_in_units = 0
    /\ SyncIdle
    /\ GenIdle
    /\ trades_table = <<>>

BuildNext ==
    \/ build_enter /\ UNCHANGED <<p_vars, u_vars, t_vars, g_vars>>
    \/ build_loop /\ UNCHANGED <<p_vars, u_vars, t_vars, g_vars>>
    \/ build_return /\ UNCHANGED <<p_vars, u_vars, t_vars, g_vars>>

SpecBuild == BuildInit /\ [][BuildNext]_vars

\* generate_portfolio over the stored prices and the trades created so far
PriceTables ==
    SeqsUpTo({[ticker |-> t, date |-> d, price |-> ProviderClose(d)] :
                 t \in TickerSet, d \in Dates}, MaxPriceRows)

FanOutInit ==
    /\ trades_table = <<>>
    /\ prices_table \in PriceTables
    /\ provider = [t \in TickerSet |-> {}]
    /\ api_key_set = TRUE
    /\ u_pc = [t \in Tasks |-> "idle"]
    /\ u_idx = [t \in Tasks |-> 1]
    /\ u_last = [t \in Tasks |-> MIN_DATE]
    /\ u_size = [t \in Tasks |-> "full"]
    /\ u_todo = [t \in Tasks |-> {}]
    /\ u_runs = [t \in Tasks |-> 0]
    /\ u_written = [t \in Tasks |-> <<>>]
    /\ u_wiped = [t \in Tasks |-> FALSE]
    /\ u_prev_clean = [t \in Tasks |-> FALSE]
    /\ BuildIdle
    /\ GenIdle

FanOutNext ==
    \/ \E payload \in [ticker : TickerSet, date : Dates, amount : Amounts] :
          create_trade(payload)
    \/ g_start
    \/ g_select_trades
    \/ g_select_prices
    \/ build_enter /\ UNCHANGED <<p_vars, u_vars, t_vars, g_vars>>
    \/ build_loop /\ UNCHANGED <<p_vars, u_vars, t_vars, g_vars>>
    \/ build_return /\ UNCHANGED <<p_vars, u_vars, t_vars, g_vars>>
    \/ g_insert

SpecFanOut == FanOutInit /\ [][FanOutNext]_vars

(* =========================== properties ================================ *)

(* ----------------- reference definitions for build_porfolio ------------ *)

PointDates == {portfolio[i].date : i \in 1..Len(portfolio)}
PriceDates == {b_prices[j].date : j \in 1..Len(b_prices)}
BuildRan == b_pc \in {"loop", "returned"}

MinOf(S) == CHOOSE x \in S : \A y \in S : x <= y

\* the close of the first price observation dated d
ClosePriceOn(d) == b_prices[MinOf({j \in 1..Len(b_prices) : b_prices[j].date = d})].price

RECURSIVE SumOver(_, _)
SumOver(f, S) ==
    IF S = {} THEN 0
    ELSE LET x == CHOOSE y \in S : TRUE IN f[x] + SumOver(f, S \ {x})

\* sum of the amounts of every trade dated on or before d
SumOfTradesUpTo(d) ==
    SumOver([k \in 1..Len(b_trades) |-> b_trades[k].amount],
            {k \in 1..Len(b_trades) : b_trades[k].date <= d})

\* a trade is the first of its date when no earlier list entry has its date
FirstOfItsDate(k) == \A j \in 1..(k - 1) : b_trades[j].date # b_trades[k].date

\* sum of the amounts of the trades dated on or before d that are the first
\* of their date in list order
SumOfFirstTradesUpTo(d) ==
    SumOver([k \in 1..Len(b_trades) |-> b_trades[k].amount],
            {k \in 1..Len(b_trades) : b_trades[k].date <= d /\ FirstOfItsDate(k)})

\* C1: on non-empty date-ascending inputs the output dates are strictly
\* ascending, each is the date of a price observation, none lies outside
\* [first trade date, last price date], and the output is empty when the first
\* trade is dated after the last price.
C1_OutputDates ==
    BuildRan =>
        /\ \A i \in 1..Len(portfolio) : \A j \in (i + 1)..Len(portfolio) :
              portfolio[i].date < portfolio[j].date
        /\ PointDates \subseteq PriceDates
        /\ \A d \in PointDates :
              b_trades[1].date <= d /\ d <= b_prices[Len(b_prices)].date
        /\ (b_trades[1].date > b_prices[Len(b_prices)].date => portfolio = <<>>)

\* a finished call with two points and a price observation before the window
C1_Witness ==
    /\ b_pc = "returned"
    /\ Len(portfolio) >= 2
    /\ \E d \in PriceDates : d < b_trades[1].date

\* C2: every emitted point is valued with the sum of the amounts of every
\* trade dated on or before its date, times the close of that date.
C2_AllTradesSummed ==
    b_pc = "returned" =>
        \A i \in 1..Len(portfolio) :
            portfolio[i].amount_in_euros =
                SumOfTradesUpTo(portfolio[i].date) * ClosePriceOn(portfolio[i].date)

\* C3: with an empty trade list or an empty price list the builder does not
\* fail and returns an empty result.
C3_EmptyInputReturnsEmpty ==
    (b_trades = <<>> \/ b_prices = <<>>) =>
        /\ b_pc # "panicked"
        /\ (b_pc = "returned" => portfolio = <<>>)

\* C8: for every date d of [first trade date, last price date] a point dated d
\* is emitted iff a price observation is dated d, and each point is valued
\* with the trades applied on every day up to its date, unpriced days too.
C8_PointIffPriced ==
    b_pc = "returned" =>
        /\ \A d \in b_trades[1].date .. b_prices[Len(b_prices)].date :
              d \in PointDates <=> d \in PriceDates
        /\ \A i \in 1..Len(portfolio) :
              portfolio[i].amount_in_euros =
                  SumOfFirstTradesUpTo(portfolio[i].date)
                      * ClosePriceOn(portfolio[i].date)

\* a finished call where a trade is dated on an unpriced day of the window and
\* a point is emitted for a later day
C8_Witness ==
    /\ b_pc = "returned"
    /\ \E k \in 1..Len(b_trades) : \E i \in 1..Len(portfolio) :
          /\ b_trades[k].date \notin PriceDates
          /\ b_trades[k].date < portfolio[i].date

\* C9: of several trades sharing a date only the first in list order is ever
\* added to the running position, on that day and on every later day.
C9_FirstSameDayTradeOnly ==
    BuildRan =>
        portfolio_amount_in_units = SumOfFirstTradesUpTo(portfolio_boot_date - 1)

\* a finished call with two trades of different amounts on one date and a
\* point emitted for a later day
C9_Witness ==
    /\ b_pc = "returned"
    /\ \E j \in 1..Len(b_trades) : \E k \in (j + 1)..Len(b_trades) :
          /\ b_trades[j].date = b_trades[k].date
          /\ b_trades[j].amount # b_trades[k].amount
          /\ \E i \in 1..Len(portfolio) : portfolio[i].date > b_trades[k].date

(* ------------------ reference definitions for the stores --------------- *)

IsPrefix(a, b) == Len(a) <= Len(b) /\ \A i \in 1..Len(a) : a[i] = b[i]

TickerIndex(ticker) == CHOOSE i \in 1..Len(TICKERS) : TICKERS[i] = ticker

InTable(row) == \E j \in 1..Len(prices_table) : prices_table[j] = row

\* C4: when an update_prices request has returned and the next one follows
\* it with no delete_prices since the first started, the provider holding the
\* same data, the second request inserts no row.
C4_SecondRunInsertsNothing ==
    \A t \in Tasks : (u_prev_clean[t] /\ ~u_wiped[t]) => u_written[t] = <<>>

\* a second request has returned after a first one that stored rows
C4_Witness ==
    /\ u_prev_clean[1]
    /\ u_pc[1] = "returned_ok"
    /\ ~u_wiped[1]
    /\ Len(prices_table) >= 2

\* C5: the prices table holds at most one row per (ticker, date), also when
\* update_prices requests interleave.
C5_OneRowPerTickerDate ==
    \A i \in 1..Len(prices_table) : \A j \in (i + 1)..Len(prices_table) :
        ~(/\ prices_table[i].ticker = prices_table[j].ticker
          /\ prices_table[i].date = prices_table[j].date)

\* C6: two generate_portfolio requests that read the same trades and prices
\* of a ticker answer the same series for it, whatever the rows of the other
\* tickers are.
C6_TickerIndependence ==
    \A t \in TickerSet :
        (/\ g_prev.known
         /\ g_pc = "responded" \/ GenPanicked
         /\ filter_ticker(g_trades, t) = filter_ticker(g_prev.trades, t)
         /\ filter_ticker(g_prices, t) = filter_ticker(g_prev.prices, t))
        => AnsweredSeries(t) = g_prev.series[t]

\* C7 as stated: no step removes or changes a stored price row.
C7_AppendOnly == [][IsPrefix(prices_table, prices_table')]_vars

\* C7 as amended: every step keeps the stored price rows in place, except
\* delete_prices, which removes all of them.
C7_AppendOnlyButDelete ==
    [][\/ IsPrefix(prices_table, prices_table')
       \/ /\ prices_table' = <<>>
          /\ u_wiped' = [t \in Tasks |-> TRUE]]_vars

\* rows were stored, delete_prices ran, and rows were stored again
C7_Witness ==
    /\ u_wiped[1]
    /\ u_written[1] # <<>>
    /\ prices_table # <<>>
    /\ Len(prices_table) < Len(u_written[1])

\* C10: when the provider call fails at a ticker, the request ends there: it
\* wrote no row for that ticker or a later one, and the rows it inserted for
\* earlier tickers are still stored (unless delete_prices ran meanwhile).
C10_AbortKeepsEarlierRows ==
    \A t \in Tasks :
        u_pc[t] = "panicked" =>
            /\ \A i \in 1..Len(u_written[t]) :
                  TickerIndex(u_written[t][i].ticker) < u_idx[t]
            /\ u_todo[t] = {}
            /\ (~u_wiped[t] => \A i \in 1..Len(u_written[t]) : InTable(u_written[t][i]))

\* the provider failed at the second ticker after rows of the first were stored
C10_Witness ==
    /\ u_pc[1] = "panicked"
    /\ u_idx[1] = 2
    /\ u_written[1] # <<>>
    /\ ~u_wiped[1]

====
